---------------------------- MODULE Spec2Model ----------------------------
(***************************************************************************)
(* Smart Store Access System (src/server.py, src/client.py).               *)
(*                                                                         *)
(* Three parts of the server are modelled:                                 *)
(*   - the CoAP message codec (CoAPMessage.parse / serialize), as          *)
(*     operators over byte sequences, exercised by SpecCodec;              *)
(*   - the capacity ledger (StoreStats), statement by statement, with its  *)
(*     lock, exercised by concurrent callers in SpecLedger and SpecRace;   *)
(*   - the receive loop and dispatcher (CustomCoAPServer.run,              *)
(*     SmartStoreServer.handle_message), exercised by Spec, and by         *)
(*     SpecFaults on a transport whose sendto may raise.                   *)
(* And the client: entry_thread and exit_thread with their two locks and   *)
(* the globals of coap_response_callback, exercised by SpecClient and,     *)
(* under fair scheduling, by SpecClientFair. SpecStore joins the exit      *)
(* worker to the server over a network that may lose datagrams.            *)
(*                                                                         *)
(* Bytes are integers 0..255, a bytes object is a sequence of them, and a  *)
(* Python str is the sequence of its code points.                          *)
(***************************************************************************)
EXTENDS Integers, Sequences, FiniteSets, TLC

VARIABLES
    \* ---- codec harness (SpecCodec)
    origin,             \* "msg": wire comes from serialize(msg); "raw": from the network
    msg,                \* the CoAPMessage handed to serialize
    wire,               \* the bytes on the wire
    parsed,             \* the outcome of CoAPMessage.parse(wire)
    cpc,                \* position of the codec harness
    \* ---- StoreStats
    total_entrants,
    customers_in_store,
    max_capacity,
    lock,               \* holder of StoreStats.lock, or Free
    \* ---- threads calling into StoreStats
    pc,                 \* thread -> position
    ret,                \* thread -> value returned by its last StoreStats call
    retTo,              \* thread -> position to continue at after the call
    pre,                \* thread -> ledger as it was when the thread took the lock
    \* ---- server receive loop
    running,            \* CustomCoAPServer.running
    message,            \* the decoded message being handled
    sent,               \* the datagram handed to socket.sendto for that message
    before,             \* the ledger as it was when the datagram was received
    outcome,            \* what became of the last datagram: "none" received yet,
                        \* "decoded", "parse_raised", "handler_raised", "send_raised"
    \* ---- client (src/client.py)
    cpos,                   \* worker -> position in entry_thread / exit_thread
    coap_lock,              \* holder of coap_lock, or Free
    door_lock,              \* holder of the client's lock (the LED's), or Free
    last_response_payload,
    received_response,
    led,                    \* led.value()
    outstanding,            \* requests sent whose response may still arrive
    left,                   \* worker -> iterations left of the loop it is in
    rx,                     \* the request answered by the datagram the callback is handling
    puts,                   \* PUTs sent in the exit worker's trip under way
    rx1,                    \* a response arrived in the first window of that trip
    own_allowed,            \* in the entry worker's trip under way, the answer
                            \* "allowed" to its GET arrived in its wait
    timed_out,              \* ... and its wait ended on the deadline
    \* ---- the network between the client and the server (SpecStore)
    requests,               \* URLs of the PUTs handed to coap_client.put that the
                            \* server has not received yet
    at_trip                 \* customers_in_store when the exit sensor last tripped

vars == << origin, msg, wire, parsed, cpc,
           total_entrants, customers_in_store, max_capacity, lock,
           pc, ret, retTo, pre, running, message, sent, before, outcome,
           cpos, coap_lock, door_lock, last_response_payload, received_response,
           led, outstanding, left, rx, puts, rx1, own_allowed, timed_out,
           requests, at_trip >>

codecVars  == << origin, msg, wire, parsed, cpc >>
ledgerVars == << total_entrants, customers_in_store, max_capacity, lock >>
threadVars == << pc, ret, retTo, pre >>
serverVars == << running, message, sent, before, outcome >>
clientVars == << cpos, coap_lock, door_lock, last_response_payload, received_response,
                 led, outstanding, left, rx, puts, rx1, own_allowed, timed_out >>
linkVars   == << requests, at_trip >>

----------------------------------------------------------------------------
(* Python sequence primitives, 0-based as in the source.                   *)

Min(a, b) == IF a < b THEN a ELSE b

\* s[i]
At(s, i) == s[i + 1]

\* s[a:b] for 0 <= a, 0 <= b: clipped to the sequence, never an error
Slice(s, a, b) ==
    LET lo == Min(a, Len(s))
        hi == Min(b, Len(s))
    IN  IF hi <= lo THEN << >> ELSE SubSeq(s, lo + 1, hi)

\* bytes ordering (lexicographic, a proper prefix first), as used by sorted()
RECURSIVE BytesLess(_, _)
BytesLess(a, b) ==
    IF b = << >> THEN FALSE
    ELSE IF a = << >> THEN TRUE
    ELSE IF Head(a) # Head(b) THEN Head(a) < Head(b)
    ELSE BytesLess(Tail(a), Tail(b))

\* tuple ordering of (option_number, option_value)
OptionLess(x, y) ==
    \/ x[1] < y[1]
    \/ x[1] = y[1] /\ BytesLess(x[2], y[2])

----------------------------------------------------------------------------
(* CoAP constants.                                                         *)

CON == 0
ACK == 2

EMPTY  == 0
GET    == 1
POST   == 2
PUT    == 3
DELETE == 4
CHANGED == 68
CONTENT == 69
METHOD_NOT_ALLOWED == 133
INTERNAL_SERVER_ERROR == 160

URI_PATH == 11
CONTENT_FORMAT == 12

PayloadMarker == 255

----------------------------------------------------------------------------
(* CoAPMessage.                                                            *)

\* CoAPMessage.__init__ (source, the sender's address, is left out)
NewMessage ==
    [ version |-> 1, type |-> 0, token_length |-> 0, code |-> 0,
      message_id |-> 0, token |-> << >>, options |-> << >>, payload |-> << >> ]

ParseOk(m)   == [ err |-> "none", message |-> m ]
ParseErr(e)  == [ err |-> e, message |-> NewMessage ]

\* the while loop of parse: one iteration per option, from byte pos on
RECURSIVE ParseOptions(_, _, _, _)
ParseOptions(data, pos, option_number, m) ==
    IF ~(pos < Len(data)) THEN ParseOk(m)
    ELSE IF At(data, pos) = PayloadMarker
    THEN ParseOk([m EXCEPT !.payload = Slice(data, pos + 1, Len(data))])
    ELSE
      LET nibDelta == (At(data, pos) \div 16) % 16
          nibLen   == At(data, pos) % 16
          p1       == pos + 1
          \* extended option delta
          dErr == IF nibDelta = 13 /\ ~(p1 < Len(data)) THEN "IndexError"
                  ELSE IF nibDelta = 14 /\ Len(Slice(data, p1, p1 + 2)) < 2
                       THEN "struct.error" ELSE "none"
          option_delta ==
                  IF nibDelta = 13 THEN At(data, p1) + 13
                  ELSE IF nibDelta = 14
                       THEN At(data, p1) * 256 + At(data, p1 + 1) + 269
                       ELSE nibDelta
          p2   == IF nibDelta = 13 THEN p1 + 1
                  ELSE IF nibDelta = 14 THEN p1 + 2 ELSE p1
          \* extended option length
          lErr == IF nibLen = 13 /\ ~(p2 < Len(data)) THEN "IndexError"
                  ELSE IF nibLen = 14 /\ Len(Slice(data, p2, p2 + 2)) < 2
                       THEN "struct.error" ELSE "none"
          option_length ==
                  IF nibLen = 13 THEN At(data, p2) + 13
                  ELSE IF nibLen = 14
                       THEN At(data, p2) * 256 + At(data, p2 + 1) + 269
                       ELSE nibLen
          p3   == IF nibLen = 13 THEN p2 + 1
                  ELSE IF nibLen = 14 THEN p2 + 2 ELSE p2
      IN  IF dErr # "none" THEN ParseErr(dErr)
          ELSE IF lErr # "none" THEN ParseErr(lErr)
          ELSE ParseOptions(data, p3 + option_length,
                            option_number + option_delta,
                            [m EXCEPT !.options =
                                Append(@, << option_number + option_delta,
                                             Slice(data, p3, p3 + option_length) >>)])

\* CoAPMessage.parse(data)
parse(data) ==
    IF Len(data) < 4 THEN ParseErr("ValueError")
    ELSE
      LET token_length == At(data, 0) % 16
          header == [ NewMessage EXCEPT
                        !.version      = (At(data, 0) \div 64) % 4,
                        !.type         = (At(data, 0) \div 16) % 4,
                        !.token_length = token_length,
                        !.code         = At(data, 1),
                        !.message_id   = At(data, 2) * 256 + At(data, 3),
                        !.token        = IF token_length > 0
                                         THEN Slice(data, 4, 4 + token_length)
                                         ELSE << >> ]
      IN  ParseOptions(data, 4 + token_length, 0, header)

\* sorted(self.options): the tuples in ascending (number, value) order
RECURSIVE InsertSorted(_, _)
InsertSorted(x, s) ==
    IF s = << >> THEN << x >>
    ELSE IF OptionLess(x, Head(s)) THEN << x >> \o s
    ELSE << Head(s) >> \o InsertSorted(x, Tail(s))

RECURSIVE sorted(_)
sorted(options) ==
    IF options = << >> THEN << >>
    ELSE InsertSorted(options[Len(options)], sorted(SubSeq(options, 1, Len(options) - 1)))

\* one option of serialize's for loop: the header byte, then the value
OptionBytes(option_delta, option_value) ==
    << (option_delta % 16) * 16 + (Len(option_value) % 16) >> \o option_value

\* the for loop of serialize over the sorted options
RECURSIVE SerializeOptions(_, _)
SerializeOptions(options, current_option) ==
    IF options = << >> THEN << >>
    ELSE LET option_number == Head(options)[1]
             option_value  == Head(options)[2]
         IN  OptionBytes(option_number - current_option, option_value)
             \o SerializeOptions(Tail(options), option_number)

\* CoAPMessage.serialize(self); code in 0..255 and message_id in 0..65535
serialize(m) ==
    << (m.version % 4) * 64 + (m.type % 4) * 16 + (m.token_length % 16),
       m.code, m.message_id \div 256, m.message_id % 256 >>
    \o (IF m.token_length > 0 THEN m.token ELSE << >>)
    \o SerializeOptions(sorted(m.options), 0)
    \o (IF m.payload # << >> THEN << PayloadMarker >> \o m.payload ELSE << >>)

\* CoAPMessage.create_response(self, code, payload), payload already bytes
create_response(m, code, payload) ==
    [ NewMessage EXCEPT
        !.version      = 1,
        !.type         = ACK,
        !.token_length = Len(m.token),
        !.code         = code,
        !.message_id   = m.message_id,
        !.token        = m.token,
        !.payload      = payload ]


----------------------------------------------------------------------------
(* Inputs of the codec harness.                                            *)

MaxOpts == 2        \* options per message
MaxTail == 3        \* bytes after the 4-byte header of a network buffer

\* a token of n bytes
TokenOfLen(n) == [ i \in 1..n |-> i ]

\* an option value of n bytes
ValueOfLen(n) == [ i \in 1..n |-> 97 ]

TokenLens == { 0, 8 }
OptNums   == { 0, 11, 12, 13, 24, 300 }
OptVals   == { << >>, << 97 >>, << 98 >>, ValueOfLen(13) }
Payloads  == { << >>, << 120 >> }

\* option lists of at most MaxOpts options, numbers in non-decreasing order
OptionLists ==
    UNION { { o \in [ 1..n -> OptNums \X OptVals ] :
                \A i \in 1..(n - 1) : o[i][1] <= o[i + 1][1] } : n \in 0..MaxOpts }

\* messages a caller may build: version 1, token_length = len(token)
Messages ==
    { [ NewMessage EXCEPT
          !.type = h[1], !.code = h[2], !.message_id = 4660,
          !.token_length = h[3], !.token = TokenOfLen(h[3]),
          !.options = b[1], !.payload = b[2] ] :
      h \in ({ CON, ACK } \X { GET, CONTENT } \X TokenLens),
      b \in (OptionLists \X Payloads) }

\* the claims' well-formed messages
WellFormed(m) ==
    /\ m.version = 1
    /\ m.token_length = Len(m.token)
    /\ Len(m.token) \in 0..8
    /\ \A i \in 1..Len(m.options) : m.options[i][1] >= 0
    /\ \A i \in 1..(Len(m.options) - 1) : m.options[i][1] <= m.options[i + 1][1]

\* buffers arriving from the network: any first byte of FirstBytes, a fixed
\* code and message id, then any tail; and the buffers shorter than a header
FirstBytes == { 0, 64, 65, 73, 79, 128 }
TailBytes  == { 1, 17, 31, 208, 225, 241, 255 }
Tails      == UNION { [ 1..n -> TailBytes ] : n \in 0..MaxTail }
RawBuffers ==
    { << f, GET, 0, 1 >> \o t : f \in FirstBytes, t \in Tails }
    \cup { SubSeq(<< 64, GET, 0 >>, 1, n) : n \in 0..3 }

NoResult == ParseErr("unset")

----------------------------------------------------------------------------
(* SpecCodec: serialize a message and parse the bytes, or parse bytes      *)
(* that came from the network.                                             *)

Free == << >>
NoThreads == << >>

\* Python's None, a value no payload text equals
None == << -1 >>

\* the client before main() has run
IdleClient ==
    /\ cpos = NoThreads /\ left = NoThreads
    /\ coap_lock = Free /\ door_lock = Free
    /\ last_response_payload = None /\ received_response = FALSE
    /\ led = 0
    /\ outstanding = { }
    /\ rx = "none" /\ puts = 0 /\ rx1 = FALSE
    /\ own_allowed = FALSE /\ timed_out = FALSE
    /\ requests = { } /\ at_trip = 0

IdleRest ==
    /\ IdleClient
    /\ total_entrants = 0
    /\ customers_in_store = 0
    /\ max_capacity = 10
    /\ lock = Free
    /\ pc = NoThreads /\ ret = NoThreads /\ retTo = NoThreads /\ pre = NoThreads
    /\ running = FALSE
    /\ message = NewMessage
    /\ sent = << >>
    /\ before = << 0, 0 >>
    /\ outcome = "none"

InitCodec ==
    /\ \/ origin = "msg" /\ msg \in Messages /\ wire = << >> /\ cpc = "built"
       \/ origin = "raw" /\ msg = NewMessage /\ wire \in RawBuffers /\ cpc = "wire"
    /\ parsed = NoResult
    /\ IdleRest

Serialize ==
    /\ cpc = "built"
    /\ wire' = serialize(msg)
    /\ cpc' = "wire"
    /\ UNCHANGED << origin, msg, parsed, ledgerVars, threadVars, serverVars, clientVars, linkVars >>

Parse ==
    /\ cpc = "wire"
    /\ parsed' = parse(wire)
    /\ cpc' = "parsed"
    /\ UNCHANGED << origin, msg, wire, ledgerVars, threadVars, serverVars, clientVars, linkVars >>

NextCodec == Serialize \/ Parse

SpecCodec == InitCodec /\ [][NextCodec]_vars

----------------------------------------------------------------------------
(* Codec properties.                                                       *)

\* the option numbers' deltas, as serialize computes them
DeltaAt(options, i) == options[i][1] - (IF i = 1 THEN 0 ELSE options[i - 1][1])

\* C3: round trip. For every well-formed message m (version 1, token of 0..8
\* bytes, option numbers >= 0 in non-decreasing order, any payload),
\* parse(serialize(m)) succeeds and equals m in version, kind, code,
\* message_id, token, option list and payload.
C3_RoundTrip ==
    (cpc = "parsed" /\ origin = "msg" /\ WellFormed(msg)) =>
        /\ parsed.err = "none"
        /\ parsed.message.version = msg.version
        /\ parsed.message.type = msg.type
        /\ parsed.message.code = msg.code
        /\ parsed.message.message_id = msg.message_id
        /\ parsed.message.token = msg.token
        /\ parsed.message.options = msg.options
        /\ parsed.message.payload = msg.payload

\* C9: extended option encoding. Every option whose number lies 13 or more
\* above the previous option's number (one-byte extension for 13..268, two-byte
\* extension from 269 on, e.g. 300) is recovered by parse at the same place of
\* the option list with the same absolute number and value.
C9_ExtendedDelta ==
    (cpc = "parsed" /\ origin = "msg" /\ WellFormed(msg)) =>
        \A i \in 1..Len(msg.options) :
            DeltaAt(msg.options, i) >= 13 =>
                /\ parsed.err = "none"
                /\ Len(parsed.message.options) >= i
                /\ parsed.message.options[i] = msg.options[i]

\* C10: parse rejects every buffer whose first byte has a token-length nibble
\* in 9..15, whatever follows.
C10_RejectTokenLength ==
    (cpc = "parsed" /\ Len(wire) >= 1 /\ (wire[1] % 16) \in 9..15) =>
        parsed.err # "none"

\* the bytes a delta or length nibble announces after the option's first byte
ExtBytes(nibble) == IF nibble = 13 THEN 1 ELSE IF nibble = 14 THEN 2 ELSE 0

\* the options starting at (0-based) pos announce more bytes than data holds:
\* an extended delta or length byte, or part of an option value, is missing
RECURSIVE OptionsTruncated(_, _)
OptionsTruncated(data, pos) ==
    IF pos >= Len(data) \/ At(data, pos) = PayloadMarker THEN FALSE
    ELSE LET d    == At(data, pos) \div 16
             l    == At(data, pos) % 16
             lpos == pos + 1 + ExtBytes(d)
             vpos == lpos + ExtBytes(l)
         IN  IF vpos > Len(data) THEN TRUE
             ELSE LET length == IF l = 13 THEN At(data, lpos) + 13
                                ELSE IF l = 14
                                     THEN At(data, lpos) * 256 + At(data, lpos + 1) + 269
                                     ELSE l
                  IN  IF vpos + length > Len(data) THEN TRUE
                      ELSE OptionsTruncated(data, vpos + length)

\* a buffer that ends before what it declares
Truncated(data) ==
    \/ Len(data) < 4
    \/ Len(data) < 4 + (data[1] % 16)
    \/ OptionsTruncated(data, 4 + (data[1] % 16))

\* C11: parse rejects every truncated buffer: one of fewer than 4 bytes, one
\* with fewer than token_length bytes after the header, one whose option
\* announces a value or extended delta/length bytes beyond the end. It never
\* returns a message whose token or option value is shorter than declared.
C11_RejectTruncated ==
    (cpc = "parsed" /\ Truncated(wire)) => parsed.err # "none"

\* C20: parse rejects every buffer whose version bits (the top two bits of the
\* first byte) differ from 1; it never returns a message of another version.
C20_RejectVersion ==
    /\ (cpc = "parsed" /\ Len(wire) >= 1 /\ wire[1] \div 64 # 1) =>
           parsed.err # "none"
    /\ (cpc = "parsed" /\ parsed.err = "none") => parsed.message.version = 1

\* walking the options from (0-based) pos as parse's loop does, some option's
\* first byte (not the payload marker) has a delta or length nibble of 15
RECURSIVE HasNibble15(_, _)
HasNibble15(data, pos) ==
    IF pos >= Len(data) \/ At(data, pos) = PayloadMarker THEN FALSE
    ELSE LET d    == At(data, pos) \div 16
             l    == At(data, pos) % 16
             lpos == pos + 1 + ExtBytes(d)
             vpos == lpos + ExtBytes(l)
         IN  IF d = 15 \/ l = 15 THEN TRUE
             ELSE IF vpos > Len(data) THEN FALSE
             ELSE LET length == IF l = 13 THEN At(data, lpos) + 13
                                ELSE IF l = 14
                                     THEN At(data, lpos) * 256 + At(data, lpos + 1) + 269
                                     ELSE l
                  IN  HasNibble15(data, vpos + length)

\* C21: parse rejects every buffer in which an option's first byte (a byte in
\* option position that is not the 0xFF payload marker) has a delta nibble of
\* 15 or a length nibble of 15; no message comes out of such a buffer.
C21_RejectNibble15 ==
    (cpc = "parsed" /\ Len(wire) >= 4
        /\ HasNibble15(wire, 4 + (wire[1] % 16))) => parsed.err # "none"

\* a stable sort of the options by option number alone: each option goes
\* behind the options before it whose number is not greater
RECURSIVE InsertByNumber(_, _)
InsertByNumber(x, s) ==
    IF s = << >> THEN << x >>
    ELSE IF x[1] < Head(s)[1] THEN << x >> \o s
    ELSE << Head(s) >> \o InsertByNumber(x, Tail(s))

RECURSIVE StableByNumber(_)
StableByNumber(options) ==
    IF options = << >> THEN << >>
    ELSE InsertByNumber(options[Len(options)],
                        StableByNumber(SubSeq(options, 1, Len(options) - 1)))

\* the bytes of m with its options in stable option-number order
StableWire(m) ==
    << (m.version % 4) * 64 + (m.type % 4) * 16 + (m.token_length % 16),
       m.code, m.message_id \div 256, m.message_id % 256 >>
    \o (IF m.token_length > 0 THEN m.token ELSE << >>)
    \o SerializeOptions(StableByNumber(m.options), 0)
    \o (IF m.payload # << >> THEN << PayloadMarker >> \o m.payload ELSE << >>)

\* C22: serialize emits the options in ascending option-number order and
\* keeps options of equal number in their original relative order, whatever
\* the bytes of their values: the bytes it returns are those of the message
\* with its options stably sorted by number.
C22_StableOrder ==
    (origin = "msg" /\ cpc \in { "wire", "parsed" }) => wire = StableWire(msg)

----------------------------------------------------------------------------
(* StoreStats: each method is a sequence of steps of the calling thread t, *)
(* between taking self.lock (with self.lock:) and releasing it on return.  *)

MaxEntrants == 12   \* no new add_customer call is started beyond this total
NCallers    == 2    \* concurrent callers of the ledger harness

\* what a thread remembers of the ledger from the moment it took the lock
Snapshot == << customers_in_store, total_entrants, max_capacity >>
NoSnapshot == << 0, 0, 0 >>

\* a caller reaches a method: it will take the lock, and continue at k afterwards
Call(t, method, k) ==
    /\ pc' = [pc EXCEPT ![t] = method]
    /\ retTo' = [retTo EXCEPT ![t] = k]

\* with self.lock: without waiting for the holder to release it
acquire_nowait(t, next) ==
    /\ lock' = << t >>
    /\ pc' = [pc EXCEPT ![t] = next]
    /\ pre' = [pre EXCEPT ![t] = Snapshot]

\* with self.lock: blocks until the lock is free, then holds it
acquire(t, next) ==
    /\ lock = Free
    /\ lock' = << t >>
    /\ pc' = [pc EXCEPT ![t] = next]
    /\ pre' = [pre EXCEPT ![t] = Snapshot]

\* leaving the with block on return: the lock is released, the caller goes on
release(t) ==
    /\ lock' = Free
    /\ pc' = [pc EXCEPT ![t] = retTo[t]]
    /\ pre' = [pre EXCEPT ![t] = NoSnapshot]

\* ---- can_enter
CanLock(t) ==
    /\ pc[t] = "can_lock"
    /\ acquire(t, "can_read")
    /\ UNCHANGED << total_entrants, customers_in_store, max_capacity, ret, retTo, codecVars, serverVars, clientVars, linkVars >>

CanRead(t) ==
    /\ pc[t] = "can_read"
    /\ ret' = [ret EXCEPT ![t] = customers_in_store < max_capacity]
    /\ pc' = [pc EXCEPT ![t] = "can_return"]
    /\ UNCHANGED << ledgerVars, retTo, pre, codecVars, serverVars, clientVars, linkVars >>

CanReturn(t) ==
    /\ pc[t] = "can_return"
    /\ release(t)
    /\ UNCHANGED << total_entrants, customers_in_store, max_capacity, ret, retTo, codecVars, serverVars, clientVars, linkVars >>

\* ---- add_customer
AddLock(t) ==
    /\ pc[t] = "add_lock"
    /\ acquire(t, "add_check")
    /\ UNCHANGED << total_entrants, customers_in_store, max_capacity, ret, retTo, codecVars, serverVars, clientVars, linkVars >>

\* if self.customers_in_store <= self.max_capacity
add_has_room_inclusive == customers_in_store <= max_capacity

\* if self.customers_in_store < self.max_capacity
add_has_room == customers_in_store < max_capacity

AddCheck(t) ==
    /\ pc[t] = "add_check"
    /\ IF add_has_room
       THEN pc' = [pc EXCEPT ![t] = "add_inc_store"] /\ ret' = ret
       ELSE pc' = [pc EXCEPT ![t] = "add_return"] /\ ret' = [ret EXCEPT ![t] = FALSE]
    /\ UNCHANGED << ledgerVars, retTo, pre, codecVars, serverVars, clientVars, linkVars >>

AddIncStore(t) ==
    /\ pc[t] = "add_inc_store"
    /\ customers_in_store' = customers_in_store + 1
    /\ pc' = [pc EXCEPT ![t] = "add_inc_total"]
    /\ UNCHANGED << total_entrants, max_capacity, lock, ret, retTo, pre, codecVars, serverVars, clientVars, linkVars >>

\* self.total_entrants += 1
add_count == total_entrants + 1

AddIncTotal(t) ==
    /\ pc[t] = "add_inc_total"
    /\ total_entrants' = add_count
    /\ ret' = [ret EXCEPT ![t] = TRUE]
    /\ pc' = [pc EXCEPT ![t] = "add_return"]
    /\ UNCHANGED << customers_in_store, max_capacity, lock, retTo, pre, codecVars, serverVars, clientVars, linkVars >>

AddReturn(t) ==
    /\ pc[t] = "add_return"
    /\ release(t)
    /\ UNCHANGED << total_entrants, customers_in_store, max_capacity, ret, retTo, codecVars, serverVars, clientVars, linkVars >>

\* ---- remove_customer
RemLock(t) ==
    /\ pc[t] = "rem_lock"
    /\ acquire(t, "rem_check")
    /\ UNCHANGED << total_entrants, customers_in_store, max_capacity, ret, retTo, codecVars, serverVars, clientVars, linkVars >>

\* if self.customers_in_store >= 0
rem_has_customer_inclusive == customers_in_store >= 0

\* if self.customers_in_store > 0
rem_has_customer == customers_in_store > 0

RemCheck(t) ==
    /\ pc[t] = "rem_check"
    /\ IF rem_has_customer
       THEN pc' = [pc EXCEPT ![t] = "rem_dec_store"] /\ ret' = ret
       ELSE pc' = [pc EXCEPT ![t] = "rem_return"] /\ ret' = [ret EXCEPT ![t] = FALSE]
    /\ UNCHANGED << ledgerVars, retTo, pre, codecVars, serverVars, clientVars, linkVars >>

\* remove_customer that also takes the customer out of total_entrants
RemDecStore_uncount(t) ==
    /\ pc[t] = "rem_dec_store"
    /\ customers_in_store' = customers_in_store - 1
    /\ total_entrants' = total_entrants - 1
    /\ ret' = [ret EXCEPT ![t] = TRUE]
    /\ pc' = [pc EXCEPT ![t] = "rem_return"]
    /\ UNCHANGED << max_capacity, lock, retTo, pre, codecVars, serverVars, clientVars, linkVars >>

RemDecStore(t) ==
    /\ pc[t] = "rem_dec_store"
    /\ customers_in_store' = customers_in_store - 1
    /\ ret' = [ret EXCEPT ![t] = TRUE]
    /\ pc' = [pc EXCEPT ![t] = "rem_return"]
    /\ UNCHANGED << total_entrants, max_capacity, lock, retTo, pre, codecVars, serverVars, clientVars, linkVars >>

RemReturn(t) ==
    /\ pc[t] = "rem_return"
    /\ release(t)
    /\ UNCHANGED << total_entrants, customers_in_store, max_capacity, ret, retTo, codecVars, serverVars, clientVars, linkVars >>

\* every step of StoreStats that thread t can take
LedgerStep(t) ==
    \/ CanLock(t) \/ CanRead(t) \/ CanReturn(t)
    \/ AddLock(t) \/ AddCheck(t) \/ AddIncStore(t) \/ AddIncTotal(t) \/ AddReturn(t)
    \/ RemLock(t) \/ RemCheck(t) \/ RemDecStore(t) \/ RemReturn(t)

\* StoreStats.__init__
InitLedger ==
    /\ total_entrants = 0
    /\ customers_in_store = 0
    /\ max_capacity = 10
    /\ lock = Free

IdleCodec ==
    /\ origin = "raw" /\ msg = NewMessage /\ wire = << >>
    /\ parsed = NoResult /\ cpc = "off"

IdleServer ==
    /\ running = FALSE /\ message = NewMessage /\ sent = << >> /\ before = << 0, 0 >>
    /\ outcome = "none"

----------------------------------------------------------------------------
(* SpecLedger: NCallers threads call add_customer, remove_customer and     *)
(* can_enter on one StoreStats, in any order and any interleaving.         *)

Callers == 1..NCallers

InitCallers ==
    /\ InitLedger
    /\ pc = [ t \in Callers |-> "idle" ]
    /\ ret = [ t \in Callers |-> FALSE ]
    /\ retTo = [ t \in Callers |-> "idle" ]
    /\ pre = [ t \in Callers |-> NoSnapshot ]
    /\ IdleCodec /\ IdleServer /\ IdleClient

CallAdd(t) ==
    /\ pc[t] = "idle"
    /\ total_entrants < MaxEntrants
    /\ Call(t, "add_lock", "idle")
    /\ UNCHANGED << ledgerVars, ret, pre, codecVars, serverVars, clientVars, linkVars >>

CallRemove(t) ==
    /\ pc[t] = "idle"
    /\ Call(t, "rem_lock", "idle")
    /\ UNCHANGED << ledgerVars, ret, pre, codecVars, serverVars, clientVars, linkVars >>

CallCanEnter(t) ==
    /\ pc[t] = "idle"
    /\ Call(t, "can_lock", "idle")
    /\ UNCHANGED << ledgerVars, ret, pre, codecVars, serverVars, clientVars, linkVars >>

NextLedger ==
    \E t \in Callers :
        CallAdd(t) \/ CallRemove(t) \/ CallCanEnter(t) \/ LedgerStep(t)

SpecLedger == InitCallers /\ [][NextLedger]_vars

----------------------------------------------------------------------------
(* SpecRace: two callers are inside add_customer at the same time, on a    *)
(* ledger in any state it can hold.                                        *)

Racers == { 1, 2 }

InitRace ==
    /\ max_capacity = 10
    /\ customers_in_store \in 0..max_capacity
    /\ total_entrants \in customers_in_store..MaxEntrants
    /\ lock = Free
    /\ before = << customers_in_store, total_entrants >>
    /\ pc = [ t \in Racers |-> "add_lock" ]
    /\ ret = [ t \in Racers |-> FALSE ]
    /\ retTo = [ t \in Racers |-> "done" ]
    /\ pre = [ t \in Racers |-> NoSnapshot ]
    /\ IdleCodec /\ IdleClient
    /\ running = FALSE /\ message = NewMessage /\ sent = << >>
    /\ outcome = "none"

NextRace ==
    \E t \in Racers :
        AddLock(t) \/ AddCheck(t) \/ AddIncStore(t) \/ AddIncTotal(t) \/ AddReturn(t)

SpecRace == InitRace /\ [][NextRace]_vars

----------------------------------------------------------------------------
(* Ledger properties.                                                      *)

\* C1: in every reachable state, under any interleaving of add_customer and
\* remove_customer calls by concurrent callers,
\* 0 <= customers_in_store <= max_capacity.
C1_CapacityInvariant ==
    /\ 0 <= customers_in_store
    /\ customers_in_store <= max_capacity

\* C1 witness: the store is full while one caller is inside add_customer's
\* critical section and another waits for the lock to add as well.
C1_Witness ==
    /\ customers_in_store = max_capacity
    /\ \E t, u \in DOMAIN pc :
        t # u /\ pc[t] = "add_check" /\ pc[u] = "add_lock"

\* C2: with one slot left (customers_in_store = max_capacity - 1) and two
\* concurrent add_customer calls, once both have returned exactly one returned
\* True and the other False, and customers_in_store = max_capacity.
C2_OneSlotRace ==
    (/\ before[1] = max_capacity - 1
     /\ \A t \in DOMAIN pc : pc[t] = "done") =>
        /\ Cardinality({ t \in DOMAIN pc : ret[t] }) = 1
        /\ Cardinality({ t \in DOMAIN pc : ~ret[t] }) = 1
        /\ customers_in_store = max_capacity

\* C2 witness: from one free slot both calls have returned, and the caller
\* that was refused is caller 1.
C2_Witness ==
    /\ before[1] = max_capacity - 1
    /\ \A t \in DOMAIN pc : pc[t] = "done"
    /\ ~ret[1] /\ ret[2]

\* C6: add_customer returns True exactly when customers_in_store < max_capacity
\* held when it took the lock, and then customers_in_store and total_entrants
\* are each one more; otherwise it returns False and customers_in_store,
\* total_entrants and max_capacity are as they were. (From the empty ledger
\* this makes calls one to ten return True and the eleventh False.)
C6_AddCustomer ==
    \A t \in DOMAIN pc :
        pc[t] = "add_return" =>
            /\ ret[t] = (pre[t][1] < pre[t][3])
            /\ max_capacity = pre[t][3]
            /\ ret[t] => /\ customers_in_store = pre[t][1] + 1
                         /\ total_entrants = pre[t][2] + 1
            /\ ~ret[t] => /\ customers_in_store = pre[t][1]
                          /\ total_entrants = pre[t][2]

\* C6 witness: the eleventh call. Ten entrants are in the store, nobody has
\* left, and an add_customer call is returning False with nothing changed.
C6_Witness ==
    \E t \in DOMAIN pc :
        /\ pc[t] = "add_return"
        /\ pre[t] = << 10, 10, 10 >>
        /\ ~ret[t]
        /\ customers_in_store = 10 /\ total_entrants = 10

\* C7: remove_customer returns True exactly when customers_in_store > 0 held
\* when it took the lock, and then customers_in_store is one less and
\* total_entrants unchanged; on an empty store it returns False, changes
\* nothing, and customers_in_store is not negative.
C7_RemoveCustomer ==
    \A t \in DOMAIN pc :
        pc[t] = "rem_return" =>
            /\ ret[t] = (pre[t][1] > 0)
            /\ total_entrants = pre[t][2]
            /\ max_capacity = pre[t][3]
            /\ customers_in_store >= 0
            /\ ret[t] => customers_in_store = pre[t][1] - 1
            /\ ~ret[t] => customers_in_store = 0 /\ pre[t][1] = 0

\* C7 witness: remove_customer is returning False on a store that is empty
\* after customers have come and gone.
C7_Witness ==
    \E t \in DOMAIN pc :
        /\ pc[t] = "rem_return"
        /\ ~ret[t]
        /\ customers_in_store = 0
        /\ total_entrants > 0

----------------------------------------------------------------------------
(* Python str primitives. A str is the sequence of its code points; the    *)
(* texts below are all ASCII.                                              *)

\* "entry"
S_entry == << 101, 110, 116, 114, 121 >>
\* "exit"
S_exit == << 101, 120, 105, 116 >>
\* "debug"
S_debug == << 100, 101, 98, 117, 103 >>
\* "unknown"
S_unknown == << 117, 110, 107, 110, 111, 119, 110 >>
\* "allowed"
S_allowed == << 97, 108, 108, 111, 119, 101, 100 >>
\* "denied"
S_denied == << 100, 101, 110, 105, 101, 100 >>
\* "success"
S_success == << 115, 117, 99, 99, 101, 115, 115 >>
\* "error"
S_error == << 101, 114, 114, 111, 114 >>
\* "Debug response"
S_debug_response == << 68, 101, 98, 117, 103, 32, 114, 101, 115, 112, 111, 110, 115, 101 >>
\* "Debug PUT response"
S_debug_put_response == << 68, 101, 98, 117, 103, 32, 80, 85, 84, 32, 114, 101, 115, 112, 111, 110, 115, 101 >>
\* "customer_exit"
S_customer_exit == << 99, 117, 115, 116, 111, 109, 101, 114, 95, 101, 120, 105, 116 >>
\* "EXIT"
S_EXIT == << 69, 88, 73, 84 >>
\* "reentry"
S_reentry == << 114, 101 >> \o S_entry
\* "send failed", the text of an exception raised by socket.sendto
S_send_failed == << 115, 101, 110, 100, 32, 102, 97, 105, 108, 101, 100 >>

\* s.lower(), on code points below 128
lower(s) == [ i \in 1..Len(s) |-> IF s[i] \in 65..90 THEN s[i] + 32 ELSE s[i] ]

\* sub in s
Contains(sub, s) ==
    \E i \in 0..(Len(s) - Len(sub)) : SubSeq(s, i + 1, i + Len(sub)) = sub

\* s.encode('utf-8'), on code points below 2048
RECURSIVE encode_utf8(_)
encode_utf8(s) ==
    IF s = << >> THEN << >>
    ELSE (IF Head(s) < 128 THEN << Head(s) >>
          ELSE << 192 + (Head(s) \div 64), 128 + (Head(s) % 64) >>)
         \o encode_utf8(Tail(s))

\* whether b.decode('utf-8') succeeds, for values made of ASCII bytes and of
\* bytes that no UTF-8 text holds (0x80..0xC1, 0xF5..0xFF)
utf8_decodable(b) == \A i \in 1..Len(b) : b[i] < 128

HexDigit(d) == IF d < 10 THEN 48 + d ELSE 87 + d

\* str(b) of a bytes object: b'...', printable ASCII as it is (no quote, no
\* backslash among the inputs), anything else as \xhh
RECURSIVE bytes_repr_body(_)
bytes_repr_body(b) ==
    IF b = << >> THEN << >>
    ELSE (IF Head(b) \in 32..126 THEN << Head(b) >>
          ELSE << 92, 120, HexDigit(Head(b) \div 16), HexDigit(Head(b) % 16) >>)
         \o bytes_repr_body(Tail(b))

bytes_str(b) == << 98, 39 >> \o bytes_repr_body(b) \o << 39 >>

\* try: option[1].decode('utf-8') except: str(option[1])
segment_text(b) == IF utf8_decodable(b) THEN b ELSE bytes_str(b)

\* the values of the URI_PATH options, in the order of the option list
RECURSIVE uri_segments(_)
uri_segments(options) ==
    IF options = << >> THEN << >>
    ELSE (IF Head(options)[1] = URI_PATH
          THEN << segment_text(Head(options)[2]) >> ELSE << >>)
         \o uri_segments(Tail(options))

\* '/'.join(parts)
RECURSIVE join_slash(_)
join_slash(parts) ==
    IF parts = << >> THEN << >>
    ELSE IF Len(parts) = 1 THEN parts[1]
    ELSE parts[1] \o << 47 >> \o join_slash(Tail(parts))

\* CoAPMessage.get_uri_path(self)
get_uri_path(m) == join_slash(uri_segments(m.options))

\* handle_message's own scan: the last URI_PATH option, or "unknown"
last_path(m) ==
    LET segs == uri_segments(m.options)
    IN  IF segs = << >> THEN S_unknown ELSE segs[Len(segs)]

\* handle_message's test on a request: is word ("entry", "exit") in its path
path_has(m, word) ==
    LET uri_path == get_uri_path(m)
        first == IF uri_path # << >> THEN Contains(word, lower(uri_path)) ELSE FALSE
    IN  IF ~first
        THEN lower(last_path(m)) = word \/ Contains(word, lower(last_path(m)))
        ELSE first

is_entry(m) == path_has(m, S_entry)
is_exit(m)  == path_has(m, S_exit)

----------------------------------------------------------------------------
(* The server: CustomCoAPServer.run and SmartStoreServer.handle_message,   *)
(* one thread, which calls into StoreStats from the two request handlers.  *)

Srv == "srv"

\* datagrams a client may send: requests with every method (and a response
\* code) and a few paths, and buffers that parse refuses
RequestPaths ==
    { << >>,
      << << URI_PATH, S_entry >> >>,
      << << URI_PATH, S_exit >> >>,
      << << URI_PATH, S_debug >> >>,
      << << URI_PATH, S_EXIT >> >>,
      << << URI_PATH, S_reentry >> >>,
      << << URI_PATH, S_debug >>, << URI_PATH, S_entry >> >>,
      << << URI_PATH, << 255 >> \o S_exit >> >> }

\* a request as a client builds it; a PUT carries the client's fixed body
Request(code, token, options) ==
    [ NewMessage EXCEPT
        !.type = CON, !.code = code, !.message_id = 4660,
        !.token_length = Len(token), !.token = token,
        !.options = options,
        !.payload = IF code = PUT THEN S_customer_exit ELSE << >> ]

Requests ==
    { Request(r[1], << 7, 9 >>, r[2]) :
        r \in ({ EMPTY, GET, POST, PUT, DELETE, CONTENT } \X RequestPaths) }
    \cup
    { Request(r[1], << >>, << << URI_PATH, r[2] >> >>) :
        r \in ({ GET, PUT } \X { S_entry, S_exit }) }

Undecodable == { << 64, GET, 0 >>, << 64, GET, 0, 1, 208 >>, << 64, GET, 0, 1, 225, 1 >> }

Datagrams == { serialize(m) : m \in Requests } \cup Undecodable

\* "/exit", the URL of the exit worker's second PUT
S_slash_exit == << 47 >> \o S_exit

\* the Uri-Path options the client's CoAP library may make of a URL: one
\* segment for "exit"; for "/exit" an empty segment and "exit", or "exit"
\* alone, or the text as it stands
PathsOf(url) ==
    IF url # << >> /\ url[1] = 47
    THEN { << << URI_PATH, << >> >>, << URI_PATH, Tail(url) >> >>,
           << << URI_PATH, Tail(url) >> >>,
           << << URI_PATH, url >> >> }
    ELSE { << << URI_PATH, url >> >> }

\* the datagrams that coap_client.put(SERVER_IP, SERVER_PORT, url,
\* "customer_exit") may put on the network
Encodings(url) == { serialize(Request(PUT, << >>, path)) : path \in PathsOf(url) }

\* SmartStoreServer.__init__, before start()
Init ==
    /\ InitLedger
    /\ pc = [ t \in { Srv } |-> "created" ]
    /\ ret = [ t \in { Srv } |-> FALSE ]
    /\ retTo = [ t \in { Srv } |-> "created" ]
    /\ pre = [ t \in { Srv } |-> NoSnapshot ]
    /\ IdleServer
    /\ IdleCodec
    /\ IdleClient

\* CustomCoAPServer.start
Start ==
    /\ pc[Srv] = "created"
    /\ running' = TRUE
    /\ pc' = [pc EXCEPT ![Srv] = "recv"]
    /\ UNCHANGED << message, sent, before, outcome, ret, retTo, pre, ledgerVars, codecVars, clientVars, linkVars >>

\* CustomCoAPServer.stop: the main thread clears the flag
Stop ==
    /\ running
    /\ running' = FALSE
    /\ UNCHANGED << message, sent, before, outcome, threadVars, ledgerVars, codecVars, clientVars, linkVars >>

\* run: while self.running fails
LoopExit ==
    /\ pc[Srv] = "recv"
    /\ ~running
    /\ pc' = [pc EXCEPT ![Srv] = "stopped"]
    /\ UNCHANGED << serverVars, ret, retTo, pre, ledgerVars, codecVars, clientVars, linkVars >>

\* run: recvfrom returns a datagram that parse accepts
RecvDecoded(data) ==
    LET p == parse(data)
    IN  /\ pc[Srv] = "recv"
        /\ running
        /\ p.err = "none"
        /\ (p.message.code = GET /\ is_entry(p.message)) => total_entrants < MaxEntrants
        /\ message' = p.message
        /\ sent' = << >>
        /\ before' = << customers_in_store, total_entrants >>
        /\ outcome' = "decoded"
        /\ pc' = [pc EXCEPT ![Srv] = "handle"]
        /\ requests' = { url \in requests : data \notin Encodings(url) }
        /\ UNCHANGED << running, ret, retTo, pre, ledgerVars, codecVars, clientVars, at_trip >>

\* run: recvfrom returns a datagram on which parse raises; logged, dropped
RecvUndecodable(data) ==
    /\ pc[Srv] = "recv"
    /\ running
    /\ parse(data).err # "none"
    /\ message' = NewMessage
    /\ sent' = << >>
    /\ before' = << customers_in_store, total_entrants >>
    /\ outcome' = "parse_raised"
    /\ UNCHANGED << running, threadVars, ledgerVars, codecVars, clientVars, linkVars >>

\* CustomCoAPServer.send_response(message, code, payload)
send_response(code, payload) ==
    sent' = serialize(create_response(message, code, encode_utf8(payload)))

\* handle_message: GET with "entry" in the path
HandleEntry ==
    /\ pc[Srv] = "handle"
    /\ message.code = GET /\ is_entry(message)
    /\ Call(Srv, "can_lock", "entry_can")
    /\ UNCHANGED << serverVars, ret, pre, ledgerVars, codecVars, clientVars, linkVars >>

\* handle_message: any other GET
HandleGetOther ==
    /\ pc[Srv] = "handle"
    /\ message.code = GET /\ ~is_entry(message)
    /\ send_response(CONTENT, S_debug_response)
    /\ pc' = [pc EXCEPT ![Srv] = "recv"]
    /\ UNCHANGED << running, message, before, outcome, ret, retTo, pre, ledgerVars, codecVars, clientVars, linkVars >>

\* handle_message: PUT with "exit" in the path
HandleExit ==
    /\ pc[Srv] = "handle"
    /\ message.code = PUT /\ is_exit(message)
    /\ Call(Srv, "rem_lock", "exit_rem")
    /\ UNCHANGED << serverVars, ret, pre, ledgerVars, codecVars, clientVars, linkVars >>

\* handle_message with every PUT taken as an exit notification
HandlePutOther_removes ==
    /\ pc[Srv] = "handle"
    /\ message.code = PUT /\ ~is_exit(message)
    /\ Call(Srv, "rem_lock", "exit_rem")
    /\ UNCHANGED << serverVars, ret, pre, ledgerVars, codecVars, clientVars, linkVars >>

\* handle_message: any other PUT
HandlePutOther ==
    /\ pc[Srv] = "handle"
    /\ message.code = PUT /\ ~is_exit(message)
    /\ send_response(CHANGED, S_debug_put_response)
    /\ pc' = [pc EXCEPT ![Srv] = "recv"]
    /\ UNCHANGED << running, message, before, outcome, ret, retTo, pre, ledgerVars, codecVars, clientVars, linkVars >>

\* handle_message: any other method
HandleOtherMethod ==
    /\ pc[Srv] = "handle"
    /\ message.code # GET /\ message.code # PUT
    /\ send_response(METHOD_NOT_ALLOWED, << >>)
    /\ pc' = [pc EXCEPT ![Srv] = "recv"]
    /\ UNCHANGED << running, message, before, outcome, ret, retTo, pre, ledgerVars, codecVars, clientVars, linkVars >>

\* handle_entry_request's payload with the two texts exchanged
entry_payload_swapped(added) == IF added THEN S_denied ELSE S_allowed

\* handle_entry_request: the payload sent after add_customer returned added
entry_payload(added) == IF added THEN S_allowed ELSE S_denied

\* handle_entry_request: can_enter() has returned
EntryAfterCanEnter ==
    /\ pc[Srv] = "entry_can"
    /\ IF ret[Srv]
       THEN Call(Srv, "add_lock", "entry_add") /\ sent' = sent
       ELSE /\ send_response(CONTENT, S_denied)
            /\ pc' = [pc EXCEPT ![Srv] = "entry_display"]
            /\ retTo' = retTo
    /\ UNCHANGED << running, message, before, outcome, ret, pre, ledgerVars, codecVars, clientVars, linkVars >>

\* handle_entry_request: add_customer() has returned
EntryAfterAdd ==
    /\ pc[Srv] = "entry_add"
    /\ send_response(CONTENT, entry_payload(ret[Srv]))
    /\ pc' = [pc EXCEPT ![Srv] = "entry_display"]
    /\ UNCHANGED << running, message, before, outcome, ret, retTo, pre, ledgerVars, codecVars, clientVars, linkVars >>

\* handle_exit_request's payload with the two texts exchanged
exit_payload_swapped(removed) == IF removed THEN S_error ELSE S_success

\* handle_exit_request: the payload sent after remove_customer returned removed
exit_payload(removed) == IF removed THEN S_success ELSE S_error

\* handle_exit_request: remove_customer() has returned
ExitAfterRemove ==
    /\ pc[Srv] = "exit_rem"
    /\ send_response(CHANGED, exit_payload(ret[Srv]))
    /\ pc' = [pc EXCEPT ![Srv] = "exit_display"]
    /\ UNCHANGED << running, message, before, outcome, ret, retTo, pre, ledgerVars, codecVars, clientVars, linkVars >>

\* self.store_stats.display(): prints, then the handler returns to run's loop
Display ==
    /\ pc[Srv] \in { "entry_display", "exit_display" }
    /\ pc' = [pc EXCEPT ![Srv] = "recv"]
    /\ UNCHANGED << serverVars, ret, retTo, pre, ledgerVars, codecVars, clientVars, linkVars >>

\* the positions at which the handler is about to call send_response
AtSend ==
    \/ pc[Srv] = "handle" /\ ~(message.code = GET /\ is_entry(message))
                          /\ ~(message.code = PUT /\ is_exit(message))
    \/ pc[Srv] = "entry_can" /\ ~ret[Srv]
    \/ pc[Srv] \in { "entry_add", "exit_rem" }

\* socket.sendto raises inside handle_message's try: control goes to its
\* except clause, nothing is sent
SendRaises ==
    /\ AtSend
    /\ outcome' = "handler_raised"
    /\ pc' = [pc EXCEPT ![Srv] = "except"]
    /\ UNCHANGED << running, message, sent, before, ret, retTo, pre, ledgerVars, codecVars, clientVars, linkVars >>

\* handle_message's except clause with no try around the loop body: the
\* exception of the second send ends run
ExceptRaises_uncaught ==
    /\ pc[Srv] = "except"
    /\ outcome' = "send_raised"
    /\ pc' = [pc EXCEPT ![Srv] = "crashed"]
    /\ UNCHANGED << running, message, sent, before, ret, retTo, pre, ledgerVars, codecVars, clientVars, linkVars >>

\* handle_message's except clause: send_response(INTERNAL_SERVER_ERROR, str(e))
ExceptRespond ==
    /\ pc[Srv] = "except"
    /\ send_response(INTERNAL_SERVER_ERROR, S_send_failed)
    /\ pc' = [pc EXCEPT ![Srv] = "recv"]
    /\ UNCHANGED << running, message, before, outcome, ret, retTo, pre, ledgerVars, codecVars, clientVars, linkVars >>

\* handle_message's except clause: the send raises again; the exception leaves
\* handle_message and run's except clause logs it
ExceptRaises ==
    /\ pc[Srv] = "except"
    /\ outcome' = "send_raised"
    /\ pc' = [pc EXCEPT ![Srv] = "recv"]
    /\ UNCHANGED << running, message, sent, before, ret, retTo, pre, ledgerVars, codecVars, clientVars, linkVars >>

Next ==
    \/ Start \/ Stop \/ LoopExit
    \/ \E data \in Datagrams : RecvDecoded(data) \/ RecvUndecodable(data)
    \/ HandleEntry \/ HandleGetOther \/ HandleExit \/ HandlePutOther \/ HandleOtherMethod
    \/ EntryAfterCanEnter \/ EntryAfterAdd \/ ExitAfterRemove \/ Display
    \/ LedgerStep(Srv)

Spec == Init /\ [][Next]_vars

\* the server on a transport whose sendto may raise
NextFaults == Next \/ SendRaises \/ ExceptRespond \/ ExceptRaises

SpecFaults == Init /\ [][NextFaults]_vars

----------------------------------------------------------------------------
(* Dispatcher properties.                                                  *)

\* the server is between datagrams: the last one is handled to the end
Handled == pc[Srv] \in { "recv", "stopped" }

\* the positions of the exit route, and of the entry route
ExitRoute  == { "rem_lock", "rem_check", "rem_dec_store", "rem_return",
                "exit_rem", "exit_display" }
EntryRoute == { "can_lock", "can_read", "can_return", "entry_can",
                "add_lock", "add_check", "add_inc_store", "add_inc_total",
                "add_return", "entry_add", "entry_display" }

\* the response on the wire, as its receiver decodes it
Response == parse(sent).message

\* C4: for every decoded GET request whose URI path is "entry" the handler
\* runs the entry route only, and when it is done the response sent has code
\* Content (69); its payload is "allowed" if customers_in_store < max_capacity
\* held when the request arrived, and then customers_in_store and
\* total_entrants are each one more; it is "denied" if the store was full, and
\* then both counters are as they were.
C4_EntryResponse ==
    (message.code = GET /\ get_uri_path(message) = S_entry) =>
        /\ pc[Srv] \notin ExitRoute
        /\ Handled =>
            /\ parse(sent).err = "none"
            /\ Response.code = CONTENT
            /\ IF before[1] < max_capacity
               THEN /\ Response.payload = S_allowed
                    /\ customers_in_store = before[1] + 1
                    /\ total_entrants = before[2] + 1
               ELSE /\ Response.payload = S_denied
                    /\ customers_in_store = before[1]
                    /\ total_entrants = before[2]

\* C4 witness: a GET "entry" that arrived at a full store has been answered
\* "denied" (the ten entries before it were answered "allowed").
C4_Witness ==
    /\ Handled
    /\ message.code = GET /\ get_uri_path(message) = S_entry
    /\ before[1] = max_capacity
    /\ Response.payload = S_denied

\* C5: for every decoded PUT request whose URI path is "exit" the handler
\* runs the exit route only, and when it is done the response sent has code
\* Changed (68); its payload is "success" if customers_in_store > 0 held when
\* the request arrived, and then customers_in_store is one less; it is "error"
\* if the store was empty, and then customers_in_store is still 0.
C5_ExitResponse ==
    (message.code = PUT /\ get_uri_path(message) = S_exit) =>
        /\ pc[Srv] \notin EntryRoute
        /\ Handled =>
            /\ parse(sent).err = "none"
            /\ Response.code = CHANGED
            /\ IF before[1] > 0
               THEN /\ Response.payload = S_success
                    /\ customers_in_store = before[1] - 1
               ELSE /\ Response.payload = S_error
                    /\ customers_in_store = 0

\* C5 witness: a PUT "exit" that arrived at a store emptied by earlier exits
\* has been answered "error".
C5_Witness ==
    /\ Handled
    /\ message.code = PUT /\ get_uri_path(message) = S_exit
    /\ before = << 0, 2 >>
    /\ Response.payload = S_error
    /\ customers_in_store = 0

\* C8: total_entrants never decreases; it changes only in the step of
\* add_customer that returns True, by exactly one, while the server handles a
\* GET on the entry route. remove_customer and every other route of the
\* dispatcher leave it unchanged.
C8_TotalEntrants ==
    [][ total_entrants' # total_entrants =>
            /\ total_entrants' = total_entrants + 1
            /\ pc[Srv] = "add_inc_total"
            /\ pc'[Srv] = "add_return" /\ ret'[Srv]
            /\ customers_in_store = pre[Srv][1] + 1
            /\ message.code = GET /\ is_entry(message) ]_vars

\* C8 witness: two customers entered and both left; the exit that emptied
\* the store is answered and total_entrants is still 2.
C8_Witness ==
    /\ Handled
    /\ message.code = PUT /\ Response.payload = S_success
    /\ customers_in_store = 0
    /\ total_entrants = 2


----------------------------------------------------------------------------
(* Routes that do not touch the ledger, and exceptions.                    *)

\* the request's path has word as one of its segments
HasSegment(m, word) ==
    \E i \in 1..Len(uri_segments(m.options)) : uri_segments(m.options)[i] = word

\* the request's path, in lower case, has the text word somewhere in it
HasText(m, word) == Contains(word, lower(get_uri_path(m)))

\* the ledger is as it was when the datagram arrived
LedgerAsBefore == << customers_in_store, total_entrants >> = before

\* a decoded request that is not bound for the entry handler (a GET that is
\* not entryBound) nor for the exit handler (a PUT that is not exitBound)
\* never reaches StoreStats, and when it is handled it has been answered as
\* the dispatcher's other routes answer and the ledger is as before
OtherRoutes(entryBound, exitBound) ==
    (outcome = "decoded"
         /\ ~(message.code = GET /\ entryBound)
         /\ ~(message.code = PUT /\ exitBound)) =>
        /\ pc[Srv] \notin (EntryRoute \cup ExitRoute)
        /\ LedgerAsBefore
        /\ Handled =>
            /\ parse(sent).err = "none"
            /\ Response.code = (IF message.code = GET THEN CONTENT
                                ELSE IF message.code = PUT THEN CHANGED
                                ELSE METHOD_NOT_ALLOWED)
            /\ Response.payload = (IF message.code = GET THEN S_debug_response
                                   ELSE IF message.code = PUT THEN S_debug_put_response
                                   ELSE << >>)

\* C18 as stated: a GET whose path does not contain the entry segment is
\* answered Content (69) with a diagnostic payload, a PUT whose path does not
\* contain the exit segment Changed (68) with a diagnostic payload, any other
\* method MethodNotAllowed (133) with an empty payload; customers_in_store
\* and total_entrants are unchanged in all three cases.
C18_SegmentRoutes ==
    OtherRoutes(HasSegment(message, S_entry), HasSegment(message, S_exit))

\* C18, amended: the same for a GET whose lower-cased path does not contain
\* the text "entry" anywhere, for a PUT whose lower-cased path does not
\* contain the text "exit" anywhere, and for any other method.
C18_NonLedgerRoutes ==
    OtherRoutes(HasText(message, S_entry), HasText(message, S_exit))

\* C18 witness: with one customer in the store a DELETE on path "exit" has
\* been answered MethodNotAllowed.
C18_Witness ==
    /\ Handled /\ outcome = "decoded"
    /\ message.code = DELETE /\ get_uri_path(message) = S_exit
    /\ before = << 1, 1 >>
    /\ Response.code = METHOD_NOT_ALLOWED

\* C17: no datagram stops the receive loop. A datagram that parse refuses is
\* dropped: nothing is sent, the ledger is as before, the loop is back at
\* recvfrom. An exception raised while a decoded message is handled is caught
\* by the handler and answered InternalServerError (160) to the requester; if
\* that send raises too, nothing is sent and the loop is back at recvfrom. The
\* loop ends only once running is false.
C17_LoopSurvives ==
    /\ pc[Srv] # "crashed"
    /\ pc[Srv] = "stopped" => ~running
    /\ outcome = "parse_raised" =>
        Handled /\ sent = << >> /\ LedgerAsBefore
    /\ outcome = "handler_raised" =>
        /\ pc[Srv] \in { "except", "recv", "stopped" }
        /\ Handled =>
            /\ parse(sent).err = "none"
            /\ Response.code = INTERNAL_SERVER_ERROR
            /\ Response.token = message.token
            /\ Response.message_id = message.message_id
    /\ outcome = "send_raised" => Handled /\ sent = << >>

\* C17 witness: a customer was added for a GET "entry", the send of "allowed"
\* raised, and the requester has been answered InternalServerError.
C17_Witness ==
    /\ Handled /\ outcome = "handler_raised"
    /\ message.code = GET /\ get_uri_path(message) = S_entry
    /\ customers_in_store = before[1] + 1
    /\ Response.code = INTERNAL_SERVER_ERROR

----------------------------------------------------------------------------
(* The client (src/client.py): entry_thread and exit_thread, which share   *)
(* coap_client under coap_lock, the LED under lock (door_lock here), and   *)
(* the two globals that coap_response_callback writes.                     *)
(*                                                                         *)
(* coap_client is microcoapy's Coap: get and put send one request          *)
(* datagram, poll(timeout) waits at most timeout for one datagram and      *)
(* hands a response to responseCallback before it returns. The callback    *)
(* is called for whatever response arrives.                                *)
(*                                                                         *)
(* Each step below is one access to the shared state; a thread may be      *)
(* preempted between any two of them.                                      *)

E == "entry_thread"
X == "exit_thread"
Workers == { E, X }

PollBudget == 2     \* iterations of a wait loop before its deadline
BlinkCount == 3     \* for _ in range(3)

\* the server side, which no client step touches
serverSide == << codecVars, ledgerVars, threadVars, serverVars >>

\* requests whose response may still arrive: those of the current exchange
\* ("entry", "exit", "exit_retry", "debug") and those of exchanges that are
\* over ("old_entry", "old_exit", "old_debug")
Stale(tag) ==
    CASE tag = "entry" -> "old_entry"
      [] tag \in { "exit", "exit_retry" } -> "old_exit"
      [] tag = "debug" -> "old_debug"
      [] OTHER -> tag

\* the exchange of request tag is over: its response, if any, comes late
Retire(tag) ==
    IF tag \in outstanding THEN (outstanding \ { tag }) \cup { Stale(tag) }
    ELSE outstanding

\* the payloads a response to request tag may carry
Replies(tag) ==
    CASE tag \in { "entry", "old_entry" } -> { S_allowed, S_denied, << >> }
      [] tag \in { "exit", "exit_retry", "old_exit" } -> { S_success, S_error }
      [] OTHER -> { S_debug_response, << 255 >> }

\* the bytes object kept when decode() fails: no str equals it
raw_bytes(b) == << -2 >> \o b

\* coap_response_callback: the value it stores for a packet's payload
callback_payload(payload) ==
    IF payload # << >>
    THEN (IF utf8_decodable(payload) THEN payload ELSE raw_bytes(payload))
    ELSE None

\* coap_client.poll returns after the callback stored the payload of the
\* response to request tag; the callback's last statement is still to run
PollGets(w, tag, payload, callback_at) ==
    /\ tag \in outstanding
    /\ payload \in Replies(tag)
    /\ outstanding' = outstanding \ { tag }
    /\ last_response_payload' = callback_payload(payload)
    /\ rx' = tag
    /\ cpos' = [cpos EXCEPT ![w] = callback_at]

\* coap_response_callback: received_response = True
CallbackFlag(w, next) ==
    /\ received_response' = TRUE
    /\ rx' = "none"
    /\ cpos' = [cpos EXCEPT ![w] = next]

\* with coap_lock: entered without waiting for the lock
client_acquire_nowait(w) == coap_lock' = << w >>

\* with coap_lock: the worker waits until the lock is free and takes it
client_acquire(w) == coap_lock = Free /\ coap_lock' = << w >>

\* main(): the LED is red, the connectivity probe GET "debug" was sent and
\* polled for once: it was answered, or its response is still to come, or
\* the request was not sent. Then the two workers start.
InitClient ==
    /\ cpos = [ w \in Workers |-> "poll_sensor" ]
    /\ left = [ w \in Workers |-> 0 ]
    /\ coap_lock = Free /\ door_lock = Free
    /\ led = 0
    /\ \/ /\ received_response = TRUE
          /\ last_response_payload = callback_payload(S_debug_response)
          /\ outstanding = { }
       \/ /\ received_response = FALSE
          /\ last_response_payload = None
          /\ outstanding \in { { }, { "old_debug" } }
    /\ rx = "none" /\ puts = 0 /\ rx1 = FALSE
    /\ own_allowed = FALSE /\ timed_out = FALSE
    /\ requests = { } /\ at_trip = 0
    /\ IdleCodec /\ IdleServer
    /\ total_entrants = 0 /\ customers_in_store = 0 /\ max_capacity = 10
    /\ lock = Free
    /\ pc = NoThreads /\ ret = NoThreads /\ retTo = NoThreads /\ pre = NoThreads

(* ---- entry_thread ------------------------------------------------------ *)

\* the entry sensor trips
EntryTrip ==
    /\ cpos[E] = "poll_sensor"
    /\ cpos' = [cpos EXCEPT ![E] = "reset_payload"]
    /\ UNCHANGED << coap_lock, door_lock, last_response_payload, received_response,
                    led, outstanding, left, rx, puts, rx1, own_allowed, timed_out,
                    serverSide, linkVars >>

\* last_response_payload = None
EntryResetPayload ==
    /\ cpos[E] = "reset_payload"
    /\ last_response_payload' = None
    /\ cpos' = [cpos EXCEPT ![E] = "reset_flag"]
    /\ UNCHANGED << coap_lock, door_lock, received_response,
                    led, outstanding, left, rx, puts, rx1, own_allowed, timed_out,
                    serverSide, linkVars >>

\* received_response = False
EntryResetFlag ==
    /\ cpos[E] = "reset_flag"
    /\ received_response' = FALSE
    /\ cpos' = [cpos EXCEPT ![E] = "lock"]
    /\ UNCHANGED << coap_lock, door_lock, last_response_payload,
                    led, outstanding, left, rx, puts, rx1, own_allowed, timed_out,
                    serverSide, linkVars >>

\* with coap_lock: coap_client.get("entry"); timeout = time.time() + 5
EntryGet ==
    /\ cpos[E] = "lock"
    /\ client_acquire(E)
    /\ outstanding' = outstanding \cup { "entry" }
    /\ left' = [left EXCEPT ![E] = PollBudget]
    /\ cpos' = [cpos EXCEPT ![E] = "wait"]
    /\ UNCHANGED << door_lock, last_response_payload, received_response,
                    led, rx, puts, rx1, own_allowed, timed_out, serverSide, linkVars >>

\* the wait loop goes round: poll(500) hands a response to the callback
EntryPollGets(tag, payload) ==
    /\ cpos[E] = "wait"
    /\ left[E] > 0 /\ ~received_response
    /\ PollGets(E, tag, payload, "callback")
    /\ left' = [left EXCEPT ![E] = left[E] - 1]
    /\ own_allowed' = (own_allowed \/ (tag = "entry" /\ payload = S_allowed))
    /\ UNCHANGED << coap_lock, door_lock, received_response,
                    led, puts, rx1, timed_out, serverSide, linkVars >>

\* the wait loop goes round: poll(500) returns with nothing
EntryPollNothing ==
    /\ cpos[E] = "wait"
    /\ left[E] > 0 /\ ~received_response
    /\ left' = [left EXCEPT ![E] = left[E] - 1]
    /\ UNCHANGED << cpos, coap_lock, door_lock, last_response_payload, received_response,
                    led, outstanding, rx, puts, rx1, own_allowed, timed_out,
                    serverSide, linkVars >>

\* the callback's last statement, inside poll(500)
EntryCallback ==
    /\ cpos[E] = "callback"
    /\ CallbackFlag(E, "wait")
    /\ UNCHANGED << coap_lock, door_lock, last_response_payload,
                    led, outstanding, left, puts, rx1, own_allowed, timed_out,
                    serverSide, linkVars >>

\* the wait loop without its deadline
EntryWaitEnds_no_deadline ==
    /\ cpos[E] = "wait"
    /\ received_response
    /\ coap_lock' = Free
    /\ outstanding' = Retire("entry")
    /\ timed_out' = ~received_response
    /\ left' = [left EXCEPT ![E] = 0]
    /\ cpos' = [cpos EXCEPT ![E] = "check"]
    /\ UNCHANGED << door_lock, last_response_payload, received_response,
                    led, rx, puts, rx1, own_allowed, serverSide, linkVars >>

\* while time.time() < timeout and not received_response: fails; the with
\* block ends and coap_lock is released
EntryWaitEnds ==
    /\ cpos[E] = "wait"
    /\ left[E] = 0 \/ received_response
    /\ coap_lock' = Free
    /\ outstanding' = Retire("entry")
    /\ timed_out' = ~received_response
    /\ left' = [left EXCEPT ![E] = 0]
    /\ cpos' = [cpos EXCEPT ![E] = "check"]
    /\ UNCHANGED << door_lock, last_response_payload, received_response,
                    led, rx, puts, rx1, own_allowed, serverSide, linkVars >>

\* if received_response:
EntryCheck ==
    /\ cpos[E] = "check"
    /\ cpos' = [cpos EXCEPT ![E] = IF received_response THEN "compare" ELSE "debug_lock"]
    /\ UNCHANGED << coap_lock, door_lock, last_response_payload, received_response,
                    led, outstanding, left, rx, puts, rx1, own_allowed, timed_out,
                    serverSide, linkVars >>

\* last_response_payload == "allowed"
is_allowed(payload) == payload = S_allowed

\* if last_response_payload == "allowed":
EntryCompare ==
    /\ cpos[E] = "compare"
    /\ IF is_allowed(last_response_payload)
       THEN cpos' = [cpos EXCEPT ![E] = "open"] /\ left' = left
       ELSE /\ cpos' = [cpos EXCEPT ![E] = "blink"]
            /\ left' = [left EXCEPT ![E] = BlinkCount]
    /\ UNCHANGED << coap_lock, door_lock, last_response_payload, received_response,
                    led, outstanding, rx, puts, rx1, own_allowed, timed_out,
                    serverSide, linkVars >>

\* with lock: turn_led_green(); the door stays open for 5 seconds
EntryOpen ==
    /\ cpos[E] = "open"
    /\ door_lock = Free
    /\ door_lock' = << E >>
    /\ led' = 1
    /\ cpos' = [cpos EXCEPT ![E] = "dwell"]
    /\ UNCHANGED << coap_lock, last_response_payload, received_response,
                    outstanding, left, rx, puts, rx1, own_allowed, timed_out,
                    serverSide, linkVars >>

\* turn_led_red(), lock released, debounce; back to the sensor
EntryClose ==
    /\ cpos[E] = "dwell"
    /\ led' = 0
    /\ door_lock' = Free
    /\ own_allowed' = FALSE /\ timed_out' = FALSE
    /\ cpos' = [cpos EXCEPT ![E] = "poll_sensor"]
    /\ UNCHANGED << coap_lock, last_response_payload, received_response,
                    outstanding, left, rx, puts, rx1, serverSide, linkVars >>

\* denial: with lock: turn_led_green()
EntryBlinkOn ==
    /\ cpos[E] = "blink"
    /\ door_lock = Free
    /\ door_lock' = << E >>
    /\ led' = 1
    /\ cpos' = [cpos EXCEPT ![E] = "blink_off"]
    /\ UNCHANGED << coap_lock, last_response_payload, received_response,
                    outstanding, left, rx, puts, rx1, own_allowed, timed_out,
                    serverSide, linkVars >>

\* denial: turn_led_red(), lock released; after the third blink, debounce and
\* back to the sensor
EntryBlinkOff ==
    /\ cpos[E] = "blink_off"
    /\ led' = 0
    /\ door_lock' = Free
    /\ left' = [left EXCEPT ![E] = left[E] - 1]
    /\ IF left[E] > 1
       THEN /\ cpos' = [cpos EXCEPT ![E] = "blink"]
            /\ UNCHANGED << own_allowed, timed_out >>
       ELSE /\ cpos' = [cpos EXCEPT ![E] = "poll_sensor"]
            /\ own_allowed' = FALSE /\ timed_out' = FALSE
    /\ UNCHANGED << coap_lock, last_response_payload, received_response,
                    outstanding, rx, puts, rx1, serverSide, linkVars >>

\* no response: with coap_lock: coap_client.get("debug"); time.sleep(2)
EntryDebugGet ==
    /\ cpos[E] = "debug_lock"
    /\ client_acquire(E)
    /\ outstanding' = outstanding \cup { "debug" }
    /\ cpos' = [cpos EXCEPT ![E] = "debug_poll"]
    /\ UNCHANGED << door_lock, last_response_payload, received_response,
                    led, left, rx, puts, rx1, own_allowed, timed_out, serverSide, linkVars >>

\* coap_client.poll(1000) hands a response to the callback
EntryDebugPollGets(tag, payload) ==
    /\ cpos[E] = "debug_poll"
    /\ PollGets(E, tag, payload, "debug_callback")
    /\ UNCHANGED << coap_lock, door_lock, received_response,
                    led, left, puts, rx1, own_allowed, timed_out, serverSide, linkVars >>

\* coap_client.poll(1000) returns with nothing; coap_lock released, debounce
EntryDebugPollNothing ==
    /\ cpos[E] = "debug_poll"
    /\ coap_lock' = Free
    /\ outstanding' = Retire("debug")
    /\ own_allowed' = FALSE /\ timed_out' = FALSE
    /\ cpos' = [cpos EXCEPT ![E] = "poll_sensor"]
    /\ UNCHANGED << door_lock, last_response_payload, received_response,
                    led, left, rx, puts, rx1, serverSide, linkVars >>

\* the callback's last statement, inside poll(1000); coap_lock released
EntryDebugCallback ==
    /\ cpos[E] = "debug_callback"
    /\ CallbackFlag(E, "poll_sensor")
    /\ coap_lock' = Free
    /\ outstanding' = Retire("debug")
    /\ own_allowed' = FALSE /\ timed_out' = FALSE
    /\ UNCHANGED << door_lock, last_response_payload,
                    led, left, puts, rx1, serverSide, linkVars >>

(* ---- exit_thread ------------------------------------------------------- *)

\* the exit sensor trips
ExitTrip ==
    /\ cpos[X] = "poll_sensor"
    /\ cpos' = [cpos EXCEPT ![X] = "door_open"]
    /\ at_trip' = customers_in_store
    /\ UNCHANGED << coap_lock, door_lock, last_response_payload, received_response,
                    led, outstanding, left, rx, puts, rx1, own_allowed, timed_out,
                    serverSide, requests >>

\* with lock: turn_led_green()
ExitOpen ==
    /\ cpos[X] = "door_open"
    /\ door_lock = Free
    /\ led' = 1
    /\ cpos' = [cpos EXCEPT ![X] = "reset_payload"]
    /\ UNCHANGED << coap_lock, door_lock, last_response_payload, received_response,
                    outstanding, left, rx, puts, rx1, own_allowed, timed_out,
                    serverSide, linkVars >>

\* last_response_payload = None
ExitResetPayload ==
    /\ cpos[X] = "reset_payload"
    /\ last_response_payload' = None
    /\ cpos' = [cpos EXCEPT ![X] = "reset_flag"]
    /\ UNCHANGED << coap_lock, door_lock, received_response,
                    led, outstanding, left, rx, puts, rx1, own_allowed, timed_out,
                    serverSide, linkVars >>

\* received_response = False
ExitResetFlag ==
    /\ cpos[X] = "reset_flag"
    /\ received_response' = FALSE
    /\ cpos' = [cpos EXCEPT ![X] = "lock"]
    /\ UNCHANGED << coap_lock, door_lock, last_response_payload,
                    led, outstanding, left, rx, puts, rx1, own_allowed, timed_out,
                    serverSide, linkVars >>

\* with coap_lock: coap_client.put("exit", "customer_exit"); timeout = time.time() + 3
ExitPut ==
    /\ cpos[X] = "lock"
    /\ client_acquire(X)
    /\ outstanding' = outstanding \cup { "exit" }
    /\ requests' = requests \cup { S_exit }
    /\ puts' = puts + 1
    /\ left' = [left EXCEPT ![X] = PollBudget]
    /\ cpos' = [cpos EXCEPT ![X] = "wait"]
    /\ UNCHANGED << door_lock, last_response_payload, received_response,
                    led, rx, rx1, own_allowed, timed_out, serverSide, at_trip >>

\* the first wait loop goes round: poll(500) hands a response to the callback
ExitPollGets(tag, payload) ==
    /\ cpos[X] = "wait"
    /\ left[X] > 0 /\ ~received_response
    /\ PollGets(X, tag, payload, "callback")
    /\ left' = [left EXCEPT ![X] = left[X] - 1]
    /\ rx1' = TRUE
    /\ UNCHANGED << coap_lock, door_lock, received_response,
                    led, puts, own_allowed, timed_out, serverSide, linkVars >>

\* the first wait loop goes round: poll(500) returns with nothing
ExitPollNothing ==
    /\ cpos[X] = "wait"
    /\ left[X] > 0 /\ ~received_response
    /\ left' = [left EXCEPT ![X] = left[X] - 1]
    /\ UNCHANGED << cpos, coap_lock, door_lock, last_response_payload, received_response,
                    led, outstanding, rx, puts, rx1, own_allowed, timed_out,
                    serverSide, linkVars >>

\* the callback's last statement, inside the first loop's poll(500)
ExitCallback ==
    /\ cpos[X] = "callback"
    /\ CallbackFlag(X, "wait")
    /\ UNCHANGED << coap_lock, door_lock, last_response_payload,
                    led, outstanding, left, puts, rx1, own_allowed, timed_out,
                    serverSide, linkVars >>

\* the first while fails: its deadline has passed or received_response is set
ExitWaitEnds ==
    /\ cpos[X] = "wait"
    /\ left[X] = 0 \/ received_response
    /\ outstanding' = Retire("exit")
    /\ left' = [left EXCEPT ![X] = 0]
    /\ cpos' = [cpos EXCEPT ![X] = "check"]
    /\ UNCHANGED << coap_lock, door_lock, last_response_payload, received_response,
                    led, rx, puts, rx1, own_allowed, timed_out, serverSide, linkVars >>

\* if not received_response: fails; the with block ends, coap_lock is
\* released, the door is held open for the rest of the 5 seconds
ExitCheckReceived ==
    /\ cpos[X] = "check"
    /\ received_response
    /\ coap_lock' = Free
    /\ cpos' = [cpos EXCEPT ![X] = "door_close"]
    /\ UNCHANGED << door_lock, last_response_payload, received_response,
                    led, outstanding, left, rx, puts, rx1, own_allowed, timed_out,
                    serverSide, linkVars >>

\* if not received_response: holds
ExitCheckNone ==
    /\ cpos[X] = "check"
    /\ ~received_response
    /\ cpos' = [cpos EXCEPT ![X] = "retry_reset"]
    /\ UNCHANGED << coap_lock, door_lock, last_response_payload, received_response,
                    led, outstanding, left, rx, puts, rx1, own_allowed, timed_out,
                    serverSide, linkVars >>

\* received_response = False
ExitRetryReset ==
    /\ cpos[X] = "retry_reset"
    /\ received_response' = FALSE
    /\ cpos' = [cpos EXCEPT ![X] = "put_again"]
    /\ UNCHANGED << coap_lock, door_lock, last_response_payload,
                    led, outstanding, left, rx, puts, rx1, own_allowed, timed_out,
                    serverSide, linkVars >>

\* coap_client.put("/exit", "customer_exit"); timeout = time.time() + 3
ExitPutAgain ==
    /\ cpos[X] = "put_again"
    /\ outstanding' = outstanding \cup { "exit_retry" }
    /\ requests' = requests \cup { S_slash_exit }
    /\ puts' = puts + 1
    /\ left' = [left EXCEPT ![X] = PollBudget]
    /\ cpos' = [cpos EXCEPT ![X] = "wait_again"]
    /\ UNCHANGED << coap_lock, door_lock, last_response_payload, received_response,
                    led, rx, rx1, own_allowed, timed_out, serverSide, at_trip >>

\* the second wait loop goes round: poll(500) hands a response to the callback
ExitPollAgainGets(tag, payload) ==
    /\ cpos[X] = "wait_again"
    /\ left[X] > 0 /\ ~received_response
    /\ PollGets(X, tag, payload, "callback_again")
    /\ left' = [left EXCEPT ![X] = left[X] - 1]
    /\ UNCHANGED << coap_lock, door_lock, received_response,
                    led, puts, rx1, own_allowed, timed_out, serverSide, linkVars >>

\* the second wait loop goes round: poll(500) returns with nothing
ExitPollAgainNothing ==
    /\ cpos[X] = "wait_again"
    /\ left[X] > 0 /\ ~received_response
    /\ left' = [left EXCEPT ![X] = left[X] - 1]
    /\ UNCHANGED << cpos, coap_lock, door_lock, last_response_payload, received_response,
                    led, outstanding, rx, puts, rx1, own_allowed, timed_out,
                    serverSide, linkVars >>

\* the callback's last statement, inside the second loop's poll(500)
ExitCallbackAgain ==
    /\ cpos[X] = "callback_again"
    /\ CallbackFlag(X, "wait_again")
    /\ UNCHANGED << coap_lock, door_lock, last_response_payload,
                    led, outstanding, left, puts, rx1, own_allowed, timed_out,
                    serverSide, linkVars >>

\* the second while fails; the with block ends, coap_lock is released, the
\* door is held open for the rest of the 5 seconds
ExitWaitAgainEnds ==
    /\ cpos[X] = "wait_again"
    /\ left[X] = 0 \/ received_response
    /\ coap_lock' = Free
    /\ outstanding' = Retire("exit_retry")
    /\ left' = [left EXCEPT ![X] = 0]
    /\ cpos' = [cpos EXCEPT ![X] = "door_close"]
    /\ UNCHANGED << door_lock, last_response_payload, received_response,
                    led, rx, puts, rx1, own_allowed, timed_out, serverSide, linkVars >>

\* with lock: turn_led_red(); debounce; back to the sensor. A PUT of the trip
\* that the server has not received by now is taken as lost.
ExitClose ==
    /\ cpos[X] = "door_close"
    /\ door_lock = Free
    /\ led' = 0
    /\ puts' = 0 /\ rx1' = FALSE
    /\ requests' = { }
    /\ cpos' = [cpos EXCEPT ![X] = "poll_sensor"]
    /\ UNCHANGED << coap_lock, door_lock, last_response_payload, received_response,
                    outstanding, left, rx, own_allowed, timed_out, serverSide, at_trip >>

(* ---- the two workers together ------------------------------------------ *)

Tags == { "entry", "exit", "exit_retry", "debug", "old_entry", "old_exit", "old_debug" }

PayloadsIn == UNION { Replies(tag) : tag \in Tags }

\* a step of entry_thread after its sensor tripped
EntryStep ==
    \/ EntryResetPayload \/ EntryResetFlag \/ EntryGet
    \/ \E tag \in Tags, payload \in PayloadsIn : EntryPollGets(tag, payload)
    \/ EntryPollNothing \/ EntryCallback \/ EntryWaitEnds
    \/ EntryCheck \/ EntryCompare
    \/ EntryOpen \/ EntryClose \/ EntryBlinkOn \/ EntryBlinkOff
    \/ EntryDebugGet
    \/ \E tag \in Tags, payload \in PayloadsIn : EntryDebugPollGets(tag, payload)
    \/ EntryDebugPollNothing \/ EntryDebugCallback

\* a step of exit_thread after its sensor tripped
ExitStep ==
    \/ ExitOpen \/ ExitResetPayload \/ ExitResetFlag \/ ExitPut
    \/ \E tag \in Tags, payload \in PayloadsIn : ExitPollGets(tag, payload)
    \/ ExitPollNothing \/ ExitCallback \/ ExitWaitEnds
    \/ ExitCheckReceived \/ ExitCheckNone \/ ExitRetryReset \/ ExitPutAgain
    \/ \E tag \in Tags, payload \in PayloadsIn : ExitPollAgainGets(tag, payload)
    \/ ExitPollAgainNothing \/ ExitCallbackAgain \/ ExitWaitAgainEnds
    \/ ExitClose

NextClient == EntryTrip \/ ExitTrip \/ EntryStep \/ ExitStep

SpecClient == InitClient /\ [][NextClient]_vars

----------------------------------------------------------------------------
(* Client properties.                                                      *)

\* the exit worker is past both wait windows of its trip
ExitExchangeOver == cpos[X] = "door_close"

\* C12: exit retry. In one exit trip the worker sends at most two PUTs. It
\* sends the second one (path "/exit") if and only if no response arrived in
\* the 3 s window after the first: a response received in the first window
\* means no retry, none means exactly one.
C12_ExitRetry ==
    /\ puts <= 2
    /\ puts = 2 => ~rx1
    /\ (ExitExchangeOver /\ ~rx1) => puts = 2

\* C13: the entry worker signals door-open only from its comparison of the
\* payload it reads for the trip, and only if that payload equals "allowed";
\* it never grants on another payload, on an empty payload (None), or in a
\* trip whose wait ended on the timeout.
C13_GrantOnlyAllowed ==
    [][ (cpos[E] # "open" /\ cpos'[E] = "open") =>
            /\ cpos[E] = "compare"
            /\ last_response_payload = S_allowed
            /\ ~timed_out ]_vars

\* the positions of a worker between sending a request and the end of its
\* polling for the response
EntryExchange == { "wait", "callback", "debug_poll", "debug_callback" }
ExitExchange  == { "wait", "callback", "check", "retry_reset", "put_again",
                   "wait_again", "callback_again" }

\* C14: transport mutual exclusion. The entry worker and the exit worker are
\* never both between a send and the end of its polling, and a worker that is
\* there holds coap_lock.
C14_TransportExclusion ==
    /\ ~(cpos[E] \in EntryExchange /\ cpos[X] \in ExitExchange)
    /\ cpos[E] \in EntryExchange => coap_lock = << E >>
    /\ cpos[X] \in ExitExchange => coap_lock = << X >>

\* C14 witness: the exit worker polls for the response to its retry while
\* the entry worker, its sensor tripped, waits for coap_lock.
C14_Witness ==
    /\ cpos[X] = "wait_again" /\ coap_lock = << X >>
    /\ cpos[E] = "lock"

\* C15: response correlation. The datagram on which a waiting worker's
\* callback sets received_response and whose payload it stores is the
\* response to that worker's own outstanding request: the entry GET in the
\* entry wait, the PUT "exit" in the first exit window, the PUT "/exit" in
\* the second. No late response to an earlier request, and not the debug
\* probe's, gets that far.
C15_Correlation ==
    /\ cpos[E] = "callback" => rx = "entry"
    /\ cpos[X] = "callback" => rx = "exit"
    /\ cpos[X] = "callback_again" => rx = "exit_retry"

\* C16: once the response "allowed" to the entry worker's GET has arrived in
\* its wait, the trip goes on to door-open and door-close: the worker takes
\* neither the denial branch nor the no-response branch, whatever the exit
\* worker does meanwhile.
C16_AllowedOpensDoor ==
    own_allowed =>
        cpos[E] \notin { "blink", "blink_off", "debug_lock", "debug_poll", "debug_callback" }

\* The scheduler runs every thread that can take a step, and a thread blocked
\* on a lock gets it once the holder has released it, because the holder
\* sleeps after every release. A worker that is not waiting for a lock can
\* always step, one that is can step whenever the lock is free: both are the
\* strong fairness of the worker's steps. The sensors may trip at any time or
\* never.
FairClient == SF_vars(EntryStep) /\ SF_vars(ExitStep)

SpecClientFair == InitClient /\ [][NextClient]_vars /\ FairClient

\* C19: no client operation blocks for ever. A worker whose sensor tripped
\* comes back to polling its sensor; coap_lock, once taken, is released; an
\* exit trip and a granted entry come back with the LED turned red.
C19_NoBlocking ==
    /\ (cpos[E] # "poll_sensor") ~> (cpos[E] = "poll_sensor")
    /\ (cpos[X] # "poll_sensor") ~> (cpos[X] = "poll_sensor" /\ led = 0)
    /\ (cpos[E] = "dwell") ~> (cpos[E] = "poll_sensor" /\ led = 0)
    /\ (coap_lock # Free) ~> (coap_lock = Free)

\* C19 witness: the exit worker is in its retry window, out of polls, while
\* the entry worker waits for coap_lock.
C19_Witness ==
    /\ cpos[X] = "wait_again" /\ left[X] = 0
    /\ cpos[E] = "lock"

----------------------------------------------------------------------------
(* SpecStore: the exit worker and the server on one network. Each PUT of   *)
(* exit_thread reaches the server's recvfrom or is lost; the server        *)
(* handles it as run and handle_exit_request do. Whether and when the      *)
(* response reaches the client's poll is the network's choice, as in       *)
(* SpecClient: exit_thread reads nothing of a response but that one came.  *)

MaxInStore == 2     \* customers in the store when the exit sensor first trips

\* the GET "entry" that let the last customer in
EntryRequest == parse(serialize(Request(GET, << >>, << << URI_PATH, S_entry >> >>))).message

\* the server is running and n customers have been let in, none has left;
\* the client has started and its exit sensor has not tripped yet
InitStore ==
    /\ cpos = [ w \in Workers |-> "poll_sensor" ]
    /\ left = [ w \in Workers |-> 0 ]
    /\ coap_lock = Free /\ door_lock = Free
    /\ led = 0
    /\ \/ /\ received_response = TRUE
          /\ last_response_payload = callback_payload(S_debug_response)
          /\ outstanding = { }
       \/ /\ received_response = FALSE
          /\ last_response_payload = None
          /\ outstanding \in { { }, { "old_debug" } }
    /\ rx = "none" /\ puts = 0 /\ rx1 = FALSE
    /\ own_allowed = FALSE /\ timed_out = FALSE
    /\ requests = { }
    /\ IdleCodec
    /\ max_capacity = 10 /\ lock = Free
    /\ customers_in_store \in 0..MaxInStore
    /\ total_entrants = customers_in_store
    /\ at_trip = customers_in_store
    /\ running = TRUE
    /\ pc = [ t \in { Srv } |-> "recv" ]
    /\ pre = [ t \in { Srv } |-> NoSnapshot ]
    /\ IF customers_in_store = 0
       THEN /\ ret = [ t \in { Srv } |-> FALSE ]
            /\ retTo = [ t \in { Srv } |-> "created" ]
            /\ message = NewMessage /\ sent = << >>
            /\ before = << 0, 0 >> /\ outcome = "none"
       ELSE /\ ret = [ t \in { Srv } |-> TRUE ]
            /\ retTo = [ t \in { Srv } |-> "entry_add" ]
            /\ message = EntryRequest
            /\ sent = serialize(create_response(EntryRequest, CONTENT, S_allowed))
            /\ before = << customers_in_store - 1, total_entrants - 1 >>
            /\ outcome = "decoded"

\* the exit sensor trips while the server waits in recvfrom
StoreTrip ==
    /\ pc[Srv] = "recv"
    /\ ExitTrip

\* the network loses the datagram of a PUT
Lose(url) ==
    /\ url \in requests
    /\ requests' = requests \ { url }
    /\ UNCHANGED << serverSide, clientVars, at_trip >>

NextStore ==
    \/ StoreTrip \/ ExitStep
    \/ \E url \in requests : \E data \in Encodings(url) : RecvDecoded(data)
    \/ \E url \in requests : Lose(url)
    \/ HandleExit
    \/ RemLock(Srv) \/ RemCheck(Srv) \/ RemDecStore(Srv) \/ RemReturn(Srv)
    \/ ExitAfterRemove \/ Display

SpecStore == InitStore /\ [][NextStore]_vars

\* C23: one exit sensor trip makes the server take at most one customer out
\* of customers_in_store, also when the response to the first PUT "exit" is
\* lost or comes after the 3 s window and the client sends the PUT "/exit".
C23_OneDecrementPerTrip == at_trip - customers_in_store <= 1
=============================================================================
